---- MODULE Spec2Model ----
(***************************************************************************)
(* A model of the Storybook story validator (class StoryValidator and      *)
(* main), in its two versions: src/unnamed/part_001 (the version with the  *)
(* output classifier and the three exit codes) and src/validate_story.js.  *)
(*                                                                         *)
(* JavaScript runs one callback at a time.  An async function runs         *)
(* synchronously up to an await; an await of a settled promise resumes in  *)
(* a microtask, before any timer or signal callback.  The only await that  *)
(* gives the event loop a turn is `await sleep(1000)` in startStorybook,   *)
(* so the only place a signal handler can run is between two readiness     *)
(* probes.  Every action below is one such uninterrupted piece of code.    *)
(***************************************************************************)
EXTENDS Integers, Sequences, FiniteSets, TLC

VARIABLES
    variant,          \* which file's StoryValidator / main is running
    mode,             \* "main": one run of main(); "calls": a caller invoking start/stop/cleanup in sequence
    env,              \* command line and project files, fixed for the run
    pc,               \* position of the running code
    checks,           \* this.results.checks
    assigned,         \* history: how many times each entry of checks was assigned
    summary,          \* this.results.summary ([present |-> FALSE] while absent)
    resultsError,     \* this.results.error is set
    validateOutcome,  \* "pending", "resolved" (with this.results) or "rejected"
    runnerOutcome,    \* runStorybookTests: "pending", "returned" or "rejected"
    storybookProcess, \* this.storybookProcess: NoProcess (null) or the index in servers of the tracked child
    servers,          \* history: every child process spawned, with the termination commands issued for it
    attempts,         \* startStorybook's local counter
    probes,           \* history: isPortAvailable calls made by the start() call in flight
    boundProbes,      \* history: how many of them found the port bound
    startOutcome,     \* "none", "noop", "polling", "returned" or "threw" for the latest start() call
    events,           \* history: what the live-test runner did, in order
    teardowns,        \* history: every teardown hook that ran, with what it found and did
    tempTsConfig,     \* history of temp-tsconfig.json in the project root: "absent", "preexisting",
                      \* "deleted" (written by the runner, then unlinked), "left" (written, and
                      \* unlinkSync threw) or "temp" (written and never unlinked)
    stdout,           \* what was written to standard output
    exited,           \* process.exit was called, or main ended and the event loop drained
    exitCode,         \* the exit code once exited
    calls,            \* "calls" mode: number of calls made so far
    signalled,        \* history: NoSignal, or what this.storybookProcess was when the pending or handled signal arrived
    testOutput,       \* the text handed to parseTestOutput by a direct caller
    storyContent      \* the story file as checkCSFCompliance reads it; `read` is FALSE until it has

procVars  == <<storybookProcess, servers, attempts, probes, boundProbes, startOutcome,
               teardowns>>
checkVars == <<checks, assigned, summary, resultsError, tempTsConfig>>
flowVars  == <<validateOutcome, runnerOutcome, events, stdout, exited, exitCode>>
vars == <<variant, mode, env, pc, checks, assigned, summary, resultsError,
          validateOutcome, runnerOutcome, storybookProcess, servers, attempts,
          probes, boundProbes, startOutcome, events, teardowns, tempTsConfig,
          stdout, exited, exitCode, calls, signalled, testOutput, storyContent>>

(***************************************************************************)
(* Program constants and model bounds                                      *)
(***************************************************************************)
maxAttempts == 30          \* const maxAttempts = 30
NoProcess == 0             \* this.storybookProcess = null
NoSignal == -1             \* no SIGINT, SIGTERM or SIGQUIT has arrived
MaxCalls == 4              \* "calls" mode: how many start/stop/cleanup calls the caller makes
MaxCleanups == 2           \* "validate" mode: how many cleanup() calls the caller makes

Variants == {"part_001", "validate_story"}
CheckNames == {"linting", "typeScript", "csfCompliance", "renderTest", "interactionTest"}
Statuses == {"PASS", "FAIL", "SKIP", "ERROR"}

Result(status, error) == [status |-> status, error |-> error]

\* this.results.checks.<name> = value
Assign(c, name, value) ==
    [n \in (DOMAIN c) \cup {name} |-> IF n = name THEN value ELSE c[n]]

Count(a, name) == [a EXCEPT ![name] = @ + 1]

\* console.log: consecutive progress lines are kept as one item
Log(out, silent) ==
    IF silent \/ (Len(out) > 0 /\ out[Len(out)] = "line") THEN out
    ELSE Append(out, "line")

(***************************************************************************)
(* Process Supervisor: startStorybook, stopStorybook, isPortAvailable,     *)
(* cleanup                                                                 *)
(***************************************************************************)
silent_Off == FALSE       \* validate called without its argument

silent == env.json        \* main passes isJsonMode as validate's `silent`

\* isPortAvailable with its two return values exchanged
isPortAvailable_Inverted(probeFindsPort) == probeFindsPort

\* isPortAvailable: the probe command (lsof / netstat) exits zero exactly when
\* it lists a socket on the port; any failure of the command reads as
\* "available".
isPortAvailable(probeFindsPort) == IF probeFindsPort THEN FALSE ELSE TRUE

\* spawn("npm", ["run", "storybook"], ...): a new child; its pid is undefined
\* when the child could not be spawned.
Spawned(srv, hasPid) ==
    Append(srv, [pid |-> hasPid, pkill |-> 0, kill |-> 0])

\* The commands of stopStorybook's inner try block for the tracked child p:
\* `pkill -P pid`, then `kill pid`; execSync throws on a non-zero exit, so a
\* failing pkill skips kill.
TerminationCommands(srv, p, pkillOk) ==
    IF srv[p].pid
    THEN [srv EXCEPT ![p].pkill = @ + 1,
                     ![p].kill = @ + (IF pkillOk THEN 1 ELSE 0)]
    ELSE srv

NotTracked(proc, srv) ==
    [proc |-> proc, servers |-> srv, tracked |-> FALSE, cmds |-> 0, error |-> "none"]

\* stopStorybook with the inner try/catch left out: a failing command goes to
\* the outer catch, which skips `this.storybookProcess = null`.
stopStorybook_NoInnerCatch(proc, srv, pkillOk, killOk) ==
    IF proc = NoProcess THEN NotTracked(proc, srv)
    ELSE LET failed == srv[proc].pid /\ ~(pkillOk /\ killOk)
         IN [proc |-> IF failed THEN proc ELSE NoProcess,
             servers |-> TerminationCommands(srv, proc, pkillOk),
             tracked |-> TRUE,
             cmds |-> IF srv[proc].pid THEN (IF pkillOk THEN 2 ELSE 1) ELSE 0,
             error |-> IF failed THEN "caught" ELSE "none"]

\* stopStorybook with no try/catch at all: a failing command is thrown to the
\* caller.
stopStorybook_NoCatch(proc, srv, pkillOk, killOk) ==
    IF proc = NoProcess THEN NotTracked(proc, srv)
    ELSE LET failed == srv[proc].pid /\ ~(pkillOk /\ killOk)
         IN [proc |-> IF failed THEN proc ELSE NoProcess,
             servers |-> TerminationCommands(srv, proc, pkillOk),
             tracked |-> TRUE,
             cmds |-> IF srv[proc].pid THEN (IF pkillOk THEN 2 ELSE 1) ELSE 0,
             error |-> IF failed THEN "thrown" ELSE "none"]

\* stopStorybook: the supervisor state it leaves, whether it found a child,
\* how many commands it issued, and what became of a failing command.  The
\* inner catch swallows the failure, so `this.storybookProcess = null` runs
\* whatever the commands did.
stopStorybook(proc, srv, pkillOk, killOk) ==
    IF proc = NoProcess THEN NotTracked(proc, srv)
    ELSE [proc |-> NoProcess,
          servers |-> TerminationCommands(srv, proc, pkillOk),
          tracked |-> TRUE,
          cmds |-> IF srv[proc].pid THEN (IF pkillOk THEN 2 ELSE 1) ELSE 0,
          error |-> IF srv[proc].pid /\ ~(pkillOk /\ killOk) THEN "caught" ELSE "none"]

\* cleanup with the call of stopStorybook left out
StopIfTracked_Never(proc, srv, pkillOk, killOk) == NotTracked(proc, srv)

\* cleanup and validate's finally block: stopStorybook only if a child is tracked.
StopIfTracked(proc, srv, pkillOk, killOk) ==
    IF proc # NoProcess
    THEN stopStorybook(proc, srv, pkillOk, killOk)
    ELSE NotTracked(proc, srv)

Teardown(by, r) ==
    [by |-> by, tracked |-> r.tracked, cmds |-> r.cmds, error |-> r.error]

\* Where the code that awaits startStorybook goes on.
AfterStartReturn == IF mode = "calls" THEN "idle" ELSE "tool"
AfterStartThrow ==
    IF mode = "calls" THEN "idle"
    ELSE IF variant = "validate_story" THEN "runner_catch" ELSE "runner_finally"

\* startStorybook without its `if (this.storybookProcess) return`
StartCall_Always(sil, hasPid) ==
    /\ servers' = Spawned(servers, hasPid)
    /\ storybookProcess' = Len(servers) + 1
    /\ attempts' = 0
    /\ probes' = 0
    /\ boundProbes' = 0
    /\ startOutcome' = "polling"
    /\ stdout' = Log(stdout, sil)
    /\ pc' = "start_loop"

\* startStorybook up to the loop: no-op when a child is tracked, else spawn.
StartCall(sil, hasPid) ==
    IF storybookProcess # NoProcess
    THEN /\ startOutcome' = "noop"
         /\ pc' = AfterStartReturn
         /\ UNCHANGED <<storybookProcess, servers, attempts, probes, boundProbes, stdout>>
    ELSE /\ servers' = Spawned(servers, hasPid)
         /\ storybookProcess' = Len(servers) + 1
         /\ attempts' = 0
         /\ probes' = 0
         /\ boundProbes' = 0
         /\ startOutcome' = "polling"
         /\ stdout' = Log(stdout, sil)
         /\ pc' = "start_loop"

\* One turn of `while (attempts < maxAttempts)` up to the sleep, or the code
\* after the loop.
StartLoop ==
    /\ pc = "start_loop"
    /\ IF attempts < maxAttempts
       THEN \E probeFindsPort \in BOOLEAN :
              /\ probes' = probes + 1
              /\ boundProbes' = boundProbes + (IF probeFindsPort THEN 1 ELSE 0)
              /\ IF ~isPortAvailable(probeFindsPort)
                 THEN /\ startOutcome' = "returned"
                      /\ stdout' = Log(stdout, silent)
                      /\ pc' = AfterStartReturn
                 ELSE /\ pc' = "start_sleep"
                      /\ UNCHANGED <<startOutcome, stdout>>
              /\ UNCHANGED runnerOutcome
       ELSE /\ startOutcome' = "threw"
            /\ pc' = AfterStartThrow
            /\ runnerOutcome' = IF AfterStartThrow = "runner_finally"
                                THEN "failing" ELSE runnerOutcome
            /\ UNCHANGED <<probes, boundProbes, stdout>>
    /\ UNCHANGED <<variant, mode, env, checkVars, validateOutcome,
                   storybookProcess, servers, attempts, events, teardowns,
                   exited, exitCode, calls, signalled, testOutput, storyContent>>

\* `await sleep(1000)` is over: attempts++.  A signal that has arrived is
\* handled before the timer fires.
StartWake ==
    /\ pc = "start_sleep"
    /\ signalled = NoSignal
    /\ attempts' = attempts + 1
    /\ pc' = "start_loop"
    /\ stdout' = Log(stdout, silent \/ (attempts + 1) % 5 # 0)
    /\ UNCHANGED <<variant, mode, env, checkVars, validateOutcome, runnerOutcome,
                   events, exited, exitCode, storybookProcess, servers, probes,
                   boundProbes, startOutcome, teardowns, calls, signalled, testOutput, storyContent>>

(***************************************************************************)
(* Output of the live-test tool, as a sequence of words.  A regular        *)
(* expression of the code is evaluated on the words it looks for:          *)
(*   "FAIL"    the word FAIL;  "failed": the same letters in lower case    *)
(*   "PASS"    the word PASS                                               *)
(*   "ID"      <storyName>.stories.tsx;  "NAME": storyName alone           *)
(*   "SMOKE"   a line part matching  ● .. › .. › smoke-test                *)
(*   "PLAY"    a line part matching  ● .. › .. › play-test                 *)
(*   "SMOKE_OTHER", "PLAY_OTHER"  the same, as the header of a sub-test of *)
(*             another story file                                          *)
(*   "MSG"     Message:        "at": the letters "at"                      *)
(*   "render"  the word render or mount                                    *)
(*   "NL"      a line break;   "X": any other text                         *)
(***************************************************************************)
Words == {"FAIL", "failed", "PASS", "ID", "NAME", "SMOKE", "PLAY", "SMOKE_OTHER",
          "PLAY_OTHER", "MSG", "at", "render", "NL", "X"}

HasFail(w) == w \in {"FAIL", "failed"}      \* /FAIL/i
HasName(w) == w \in {"ID", "NAME"}          \* /<storyName>/i
OneLine(text, i, j) == \A k \in i..j : text[k] # "NL"   \* `.*` does not cross a line break

\* the pattern without `\\.stories\\.tsx`: the story's name alone counts
storyTestPattern_NameOnly(text) == \E i \in DOMAIN text : HasName(text[i])

\* new RegExp(`${storyName}\\.stories\\.tsx`, "i").test(testOutput)
storyTestPattern(text) == \E i \in DOMAIN text : text[i] = "ID"

\* the pattern with `[\\s\\S]*` for `.*`: FAIL anywhere before the identifier
storyFailPattern_AnyLine(text) ==
    \E i \in DOMAIN text :
        HasFail(text[i]) /\ \E j \in (i + 1)..Len(text) : text[j] = "ID"

\* new RegExp(`FAIL.*${storyName}\\.stories\\.tsx`, "i").test(testOutput)
storyFailPattern(text) ==
    \E i \in DOMAIN text :
        /\ HasFail(text[i])
        /\ \E j \in (i + 1)..Len(text) : text[j] = "ID" /\ OneLine(text, i, j)

\* The words  ●.*›.*› smoke-test  (or play-test) matches: the pattern names
\* no story, so the header of any story's sub-test matches.
HeaderWords(marker) ==
    IF marker = "SMOKE" THEN {"SMOKE", "SMOKE_OTHER"} ELSE {"PLAY", "PLAY_OTHER"}

\* /●.*›.*› smoke-test/i  and  /●.*›.*› play-test/i
hasMarker(text, marker) == \E i \in DOMAIN text : text[i] \in HeaderWords(marker)

\* `●.*›.*› <marker>[\s\S]*?Message:[\s\S]*?at.*${storyName}`
failureBlock(text, marker) ==
    \E i \in DOMAIN text :
        /\ text[i] \in HeaderWords(marker)
        /\ \E j \in (i + 1)..Len(text) :
             /\ text[j] = "MSG"
             /\ \E k \in (j + 1)..Len(text) :
                  /\ text[k] = "at"
                  /\ \E l \in (k + 1)..Len(text) :
                       HasName(text[l]) /\ OneLine(text, k, l)

parseSubTestFailure(text, marker, missing, failed) ==
    IF ~hasMarker(text, marker) THEN Result("SKIP", missing)
    ELSE IF failureBlock(text, marker) THEN Result("FAIL", failed)
    ELSE Result("PASS", "null")

parseRenderTestFailure(text) ==
    parseSubTestFailure(text, "SMOKE", "No smoke tests found for this story",
                        "Render test failed: <message>")

\* parseInteractionTestFailure without its `if (!hasPlayTests)` return
parseInteractionTestFailure_NoSkip(text) ==
    IF failureBlock(text, "PLAY")
    THEN Result("FAIL", "Interaction test failed: <message>")
    ELSE Result("PASS", "null")

parseInteractionTestFailure(text) ==
    parseSubTestFailure(text, "PLAY", "No play tests found for this story",
                        "Interaction test failed: <message>")

Both(r) == [renderTest |-> r, interactionTest |-> r]

\* part_001: parseTestOutput(testOutput, storyName)
parseTestOutput(text) ==
    IF ~storyTestPattern(text)
    THEN Both(Result("SKIP", "Story not found in test output"))
    ELSE IF ~storyFailPattern(text)
    THEN Both(Result("PASS", "null"))
    ELSE [renderTest |-> parseRenderTestFailure(text),
          interactionTest |-> parseInteractionTestFailure(text)]

\* validate_story.js: the classification written out in runStorybookTests'
\* try block, and again in its catch block for output holding FAIL or PASS
inlineTestResults(text) ==
    IF ~storyTestPattern(text)
    THEN Both(Result("SKIP", "Story not found in test output"))
    ELSE IF storyFailPattern(text)
    THEN Both(Result("FAIL", "<error details>"))
    ELSE Both(Result("PASS", "null"))

\* validate_story.js: runStorybookTests' catch block, errorOutput being
\* error.stdout || error.message
catchTestResults(errorOutput) ==
    IF (\E i \in DOMAIN errorOutput : errorOutput[i] \in {"FAIL", "PASS"})
    THEN inlineTestResults(errorOutput)
    ELSE IF \E i \in DOMAIN errorOutput : errorOutput[i] = "render"
    THEN [renderTest |-> Result("FAIL", "<error output>"),
          interactionTest |->
              Result("SKIP", "Render test failed, skipping interaction test")]
    ELSE [renderTest |-> Result("PASS", "null"),
          interactionTest |-> Result("FAIL", "<error output>")]

\* new Error("Storybook failed to start within 30 seconds").message
StartupTimeoutMessage == <<"X", "failed", "X">>

\* execSync's error.message: "Command failed: <command>\n<stderr>"
CommandFailedMessage(stderr) == <<"X", "failed", "X", "NL">> \o stderr

\* Texts the live-test tool prints in the runs explored
ToolTexts ==
    { <<>>,
      <<"PASS", "ID">>,
      <<"FAIL", "ID", "NL", "SMOKE", "NL", "MSG", "X", "NL", "at", "NAME">>,
      <<"FAIL", "ID", "NL", "PLAY", "NL", "MSG", "X", "NL", "at", "NAME", "NL", "SMOKE">>,
      <<"FAIL", "ID", "NL", "SMOKE", "NL", "PLAY", "NL", "MSG", "X", "NL", "at", "ID">>,
      <<"FAIL", "ID">>,
      <<"render", "X">> }

(***************************************************************************)
(* Check runners (identical in both files)                                 *)
(***************************************************************************)
\* runLinting keeping eslint's output (its warnings) in a PASS result
lintingResult_PassWithOutput(hasConfig, eslintOk) ==
    IF ~hasConfig THEN Result("SKIP", "No ESLint configuration found")
    ELSE IF eslintOk THEN Result("PASS", "<eslint output>")
    ELSE Result("FAIL", "<eslint output>")

\* runLinting: what it assigns to checks.linting
lintingResult(hasConfig, eslintOk) ==
    IF ~hasConfig THEN Result("SKIP", "No ESLint configuration found")
    ELSE IF eslintOk THEN Result("PASS", "null")
    ELSE Result("FAIL", "<eslint output>")

runLinting ==
    /\ pc = "runLinting"
    /\ \E eslintOk \in BOOLEAN :
         /\ checks' = Assign(checks, "linting", lintingResult(env.eslintConfig, eslintOk))
         /\ assigned' = Count(assigned, "linting")
    /\ pc' = "runTypeScriptCheck"
    /\ UNCHANGED <<variant, mode, env, summary, resultsError, tempTsConfig,
                   flowVars, procVars, calls, signalled, testOutput, storyContent>>

\* runTypeScriptCheck with the unlink after the PASS assignment and no
\* `finally`: a failing tsc skips it.
runTypeScriptCheck_NoFinally ==
    /\ pc = "runTypeScriptCheck"
    /\ IF ~env.tsConfig
       THEN /\ checks' = Assign(checks, "typeScript",
                                Result("SKIP", "No TypeScript configuration found"))
            /\ assigned' = Count(assigned, "typeScript")
            /\ UNCHANGED tempTsConfig
       ELSE \E writeOk, tscOk, unlinkOk \in BOOLEAN :
              LET thrown == ~writeOk \/ ~tscOk \/ ~unlinkOk
                  passAssigned == writeOk /\ tscOk
                  final == IF thrown THEN Result("FAIL", "<tsc output>")
                           ELSE Result("PASS", "null")
              IN /\ checks' = Assign(checks, "typeScript", final)
                 /\ assigned' = [assigned EXCEPT !["typeScript"] =
                        @ + (IF passAssigned THEN 1 ELSE 0) + (IF thrown THEN 1 ELSE 0)]
                 /\ tempTsConfig' =
                        IF ~writeOk THEN tempTsConfig
                        ELSE IF ~tscOk THEN "temp"
                        ELSE IF unlinkOk THEN "deleted" ELSE "left"
    /\ pc' = "checkCSFCompliance"
    /\ UNCHANGED <<variant, mode, env, summary, resultsError, flowVars, procVars, calls, signalled, testOutput, storyContent>>

\* runTypeScriptCheck.  With a tsconfig.json: write temp-tsconfig.json, run
\* tsc, assign PASS if it exits zero; the finally block unlinks the file if it
\* exists; the outer catch assigns FAIL for whatever was thrown on the way
\* (by writeFileSync, by tsc, or by unlinkSync in the finally block).
runTypeScriptCheck ==
    /\ pc = "runTypeScriptCheck"
    /\ IF ~env.tsConfig
       THEN /\ checks' = Assign(checks, "typeScript",
                                Result("SKIP", "No TypeScript configuration found"))
            /\ assigned' = Count(assigned, "typeScript")
            /\ UNCHANGED tempTsConfig
       ELSE \E writeOk, tscOk, unlinkOk \in BOOLEAN :
              LET thrown == ~writeOk \/ ~tscOk \/ ~unlinkOk
                  passAssigned == writeOk /\ tscOk
                  final == IF thrown THEN Result("FAIL", "<tsc output>")
                           ELSE Result("PASS", "null")
              IN /\ checks' = Assign(checks, "typeScript", final)
                 /\ assigned' = [assigned EXCEPT !["typeScript"] =
                        @ + (IF passAssigned THEN 1 ELSE 0) + (IF thrown THEN 1 ELSE 0)]
                 /\ tempTsConfig' =
                        IF ~writeOk THEN tempTsConfig
                        ELSE IF unlinkOk THEN "deleted" ELSE "left"
    /\ pc' = "checkCSFCompliance"
    /\ UNCHANGED <<variant, mode, env, summary, resultsError, flowVars, procVars, calls, signalled, testOutput, storyContent>>

\* Markers checkCSFCompliance looks for with includes(); a file holding
\* "as Meta<" or "satisfies Meta<" holds the shorter markers inside them.
Markers == {"StoryObj<", "Meta<", "as Meta<", "satisfies", "satisfies Meta<",
            "storiesOf(", "addDecorator(", "addParameters("}
Contents ==
    { c \in SUBSET Markers :
        /\ "as Meta<" \in c => "Meta<" \in c
        /\ "satisfies Meta<" \in c => {"satisfies", "Meta<"} \subseteq c }

hasCSF3Patterns(c) == "StoryObj<" \in c \/ "Meta<" \in c \/ "satisfies Meta<" \in c
hasCSF2Patterns(c) == "storiesOf(" \in c \/ "addDecorator(" \in c \/ "addParameters(" \in c
hasModernPatterns(c) == "satisfies" \in c \/ "as Meta<" \in c \/ "StoryObj<" \in c

csfVersionOf(c) ==
    IF hasCSF2Patterns(c) /\ ~hasCSF3Patterns(c) THEN "CSF2"
    ELSE IF hasCSF3Patterns(c) \/ hasModernPatterns(c) THEN "CSF3"
    ELSE "UNKNOWN"

\* checkCSFCompliance reporting SKIP for a file it cannot read
csfResult_SkipUnreadable(readOk, c) ==
    IF ~readOk THEN [status |-> "SKIP", csfVersion |-> "UNKNOWN", error |-> "<read error>"]
    ELSE [status |-> IF csfVersionOf(c) = "CSF3" THEN "PASS" ELSE "FAIL",
          csfVersion |-> csfVersionOf(c), error |-> "null"]

\* checkCSFCompliance: what it assigns to checks.csfCompliance
csfResult(readOk, c) ==
    IF ~readOk
    THEN [status |-> "ERROR", csfVersion |-> "UNKNOWN", error |-> "<read error>"]
    ELSE LET v == csfVersionOf(c)
             compliance == IF v = "CSF3" THEN "PASS" ELSE "FAIL"
         IN [status |-> compliance, csfVersion |-> v,
             error |-> IF v = "CSF2" THEN "Detected CSF2 format"
                       ELSE IF v = "UNKNOWN" THEN "Detected UNKNOWN format"
                       ELSE "null"]

\* The story file: whether readFileSync can read it, and the markers in it
StoryFile(readable, c) == [read |-> FALSE, readable |-> readable, markers |-> c]
NotRead == StoryFile(FALSE, {})

\* Story files of the runs of main explored: no marker, CSF3, CSF2, CSF2
\* with a bare `satisfies`, and a file that cannot be read
SampleFiles ==
    { StoryFile(TRUE, {}), StoryFile(TRUE, {"Meta<", "StoryObj<"}),
      StoryFile(TRUE, {"storiesOf("}), StoryFile(TRUE, {"storiesOf(", "satisfies"}),
      StoryFile(FALSE, {}) }

\* checkCSFCompliance as validate calls it
checkCSFCompliance ==
    /\ mode \in {"main", "validate"} /\ pc = "checkCSFCompliance"
    /\ \E f \in SampleFiles :
         /\ storyContent' = [f EXCEPT !.read = TRUE]
         /\ checks' = Assign(checks, "csfCompliance", csfResult(f.readable, f.markers))
         /\ assigned' = Count(assigned, "csfCompliance")
    /\ pc' = "runStorybookTests"
    /\ UNCHANGED <<variant, mode, env, summary, resultsError, tempTsConfig,
                   flowVars, procVars, calls, signalled, testOutput>>

\* checkCSFCompliance called on a validator whose story file is storyContent
CheckCSFCompliance ==
    /\ mode = "csf" /\ pc = "checkCSFCompliance"
    /\ storyContent' = [storyContent EXCEPT !.read = TRUE]
    /\ checks' = Assign(checks, "csfCompliance",
                        csfResult(storyContent.readable, storyContent.markers))
    /\ assigned' = Count(assigned, "csfCompliance")
    /\ pc' = "idle"
    /\ UNCHANGED <<variant, mode, env, summary, resultsError, tempTsConfig,
                   flowVars, procVars, calls, signalled, testOutput>>

(***************************************************************************)
(* Result aggregator                                                       *)
(***************************************************************************)
Number(v) == [nan |-> FALSE, value |-> v]
NaN == [nan |-> TRUE, value |-> 0]

\* the tally with a check of status ERROR counted under every status
Tally_CountsError(c, status) ==
    Cardinality({n \in DOMAIN c : c[n].status \in {status, "ERROR"}})

Tally(c, status) == Cardinality({n \in DOMAIN c : c[n].status = status})

\* Math.round(100 * p / d) for p >= 0, d > 0: halves round up
RoundedPercent(p, d) == (200 * p + d) \div (2 * d)

\* generateSummary.  passedChecks / 0 * 100 is NaN when passedChecks is 0 (it
\* is whenever every check is SKIP); NaN >= 80 and NaN >= 60 are false.
generateSummary(c) ==
    LET total == Cardinality(DOMAIN c)
        passed == Tally(c, "PASS")
        failed == Tally(c, "FAIL")
        skipped == Tally(c, "SKIP")
        d == total - skipped
    IN [present |-> TRUE,
        totalChecks |-> total,
        passedChecks |-> passed,
        failedChecks |-> failed,
        skippedChecks |-> skipped,
        score |-> IF total > 0
                  THEN (IF d = 0 THEN NaN ELSE Number(RoundedPercent(passed, d)))
                  ELSE Number(0),
        overallStatus |->
            IF total > 0 /\ d > 0 /\ 100 * passed >= 80 * d THEN "PASS"
            ELSE IF total > 0 /\ d > 0 /\ 100 * passed >= 60 * d THEN "WARNING"
            ELSE "FAIL"]

NoSummary == [present |-> FALSE]

(***************************************************************************)
(* main, validate and the live-test runner                                 *)
(***************************************************************************)
\* main without its usage checks and without findProjectRoot's throw
MainStart_NoUsageCheck ==
    /\ mode = "main" /\ pc = "main"
    /\ pc' = "runLinting"
    /\ stdout' = Log(stdout, silent)
    /\ UNCHANGED <<exited, exitCode>>
    /\ UNCHANGED <<variant, mode, env, checkVars, validateOutcome, runnerOutcome,
                   events, procVars, calls, signalled, testOutput, storyContent>>

\* main up to the call of validate: the usage checks, new StoryValidator
\* (findProjectRoot throws without a package.json above the file), and
\* validate's first lines.
MainStart ==
    /\ mode = "main" /\ pc = "main"
    /\ IF ~env.fileArg \/ ~env.fileExists \/ ~env.hasRoot
       THEN /\ exited' = TRUE
            /\ exitCode' = 1
            /\ pc' = "exit"
            /\ UNCHANGED stdout
       ELSE /\ pc' = "runLinting"
            /\ stdout' = Log(stdout, silent)
            /\ UNCHANGED <<exited, exitCode>>
    /\ UNCHANGED <<variant, mode, env, checkVars, validateOutcome, runnerOutcome,
                   events, procVars, calls, signalled, testOutput, storyContent>>

\* `this.results.checks = testResults` in place of the two assignments
AssignTests_Overwrite(c, r) == r

AssignTests(c, r) ==
    Assign(Assign(c, "renderTest", r.renderTest), "interactionTest", r.interactionTest)

CountTests(a) == Count(Count(a, "renderTest"), "interactionTest")

\* runStorybookTests without the hasTestRunner() guard: the server is started
\* whatever the project declares.
runStorybookTests_NoGuard ==
    /\ pc = "runStorybookTests"
    /\ events' = Append(events, "start")
    /\ \E hasPid \in BOOLEAN : StartCall(silent, hasPid)
    /\ UNCHANGED <<checks, assigned, runnerOutcome, teardowns>>
    /\ UNCHANGED <<variant, mode, env, summary, resultsError, tempTsConfig,
                   validateOutcome, exited, exitCode, calls, signalled, testOutput, storyContent>>

\* runStorybookTests computing the summary before it does anything else
runStorybookTests_WithSummary ==
    /\ pc = "runStorybookTests"
    /\ summary' = generateSummary(checks)
    /\ IF ~env.testRunner
       THEN /\ checks' = AssignTests(checks, Both(Result("SKIP", "No Storybook test-runner found")))
            /\ assigned' = CountTests(assigned)
            /\ runnerOutcome' = "returned"
            /\ pc' = "join"
            /\ UNCHANGED <<events, stdout, procVars>>
       ELSE /\ events' = Append(events, "start")
            /\ \E hasPid \in BOOLEAN : StartCall(silent, hasPid)
            /\ UNCHANGED <<checks, assigned, runnerOutcome, teardowns>>
    /\ UNCHANGED <<variant, mode, env, resultsError, tempTsConfig,
                   validateOutcome, exited, exitCode, calls, signalled, testOutput, storyContent>>

\* runStorybookTests up to `await this.startStorybook(silent)`
runStorybookTests ==
    /\ pc = "runStorybookTests"
    /\ IF ~env.testRunner
       THEN /\ checks' = AssignTests(checks, Both(Result("SKIP", "No Storybook test-runner found")))
            /\ assigned' = CountTests(assigned)
            /\ runnerOutcome' = "returned"
            /\ pc' = "join"
            /\ UNCHANGED <<events, stdout, procVars>>
       ELSE /\ events' = Append(events, "start")
            /\ \E hasPid \in BOOLEAN : StartCall(silent, hasPid)
            /\ UNCHANGED <<checks, assigned, runnerOutcome, teardowns>>
    /\ UNCHANGED <<variant, mode, env, summary, resultsError, tempTsConfig,
                   validateOutcome, exited, exitCode, calls, signalled, testOutput, storyContent>>

ToolOutcomes == {"exit0", "nonzero", "notrun"}

\* part_001, after start() returned (its locals are gone): run
\* test-storybook; on a non-zero exit read error.stderr (null when the
\* command could not be run at all, and null.toString() throws); classify;
\* assign both entries.
Tool_part_001 ==
    /\ pc = "tool" /\ variant = "part_001"
    /\ \E kind \in ToolOutcomes, text \in ToolTexts :
         IF kind = "notrun"
         THEN /\ runnerOutcome' = "failing"
              /\ UNCHANGED <<checks, assigned>>
         ELSE /\ checks' = AssignTests(checks, parseTestOutput(text))
              /\ assigned' = CountTests(assigned)
              /\ UNCHANGED runnerOutcome
    /\ events' = Append(events, "tool")
    /\ stdout' = Log(stdout, silent)
    /\ attempts' = 0 /\ probes' = 0 /\ boundProbes' = 0
    /\ pc' = "runner_finally"
    /\ UNCHANGED <<variant, mode, env, summary, resultsError, tempTsConfig,
                   validateOutcome, exited, exitCode, storybookProcess, servers,
                   startOutcome, teardowns, calls, signalled, testOutput, storyContent>>

\* validate_story.js: what the catch block reads as error.stdout ||
\* error.message when test-storybook fails: its stdout if it wrote any, else
\* the error's message
ErrorOutputs ==
    (ToolTexts \ {<<>>}) \cup {CommandFailedMessage(err) : err \in ToolTexts} \cup {<<"X">>}

\* validate_story.js, after start() returned (its locals are gone): run
\* test-storybook; classify its stdout on exit zero, else go through the
\* catch block.
Tool_validate_story ==
    /\ pc = "tool" /\ variant = "validate_story"
    /\ \E r \in {inlineTestResults(out) : out \in ToolTexts}
               \cup {catchTestResults(e) : e \in ErrorOutputs} :
         /\ checks' = AssignTests(checks, r)
         /\ assigned' = CountTests(assigned)
    /\ events' = Append(events, "tool")
    /\ stdout' = Log(stdout, silent)
    /\ attempts' = 0 /\ probes' = 0 /\ boundProbes' = 0
    /\ pc' = "runner_finally"
    /\ UNCHANGED <<variant, mode, env, summary, resultsError, tempTsConfig,
                   validateOutcome, runnerOutcome, exited, exitCode,
                   storybookProcess, servers, startOutcome, teardowns, calls, signalled, testOutput, storyContent>>

\* validate_story.js: the catch block of runStorybookTests when start() threw
RunnerCatch ==
    /\ pc = "runner_catch"
    /\ checks' = AssignTests(checks, catchTestResults(StartupTimeoutMessage))
    /\ assigned' = CountTests(assigned)
    /\ pc' = "runner_finally"
    /\ UNCHANGED <<variant, mode, env, summary, resultsError, tempTsConfig,
                   flowVars, procVars, calls, signalled, testOutput, storyContent>>

\* RunnerFinally with `finally` left out: stopStorybook runs only when no
\* error is on its way out of the try block.
RunnerFinally_NoFinally ==
    /\ pc = "runner_finally"
    /\ IF runnerOutcome = "failing"
       THEN /\ runnerOutcome' = "rejected"
            /\ events' = Append(events, "reject")
            /\ UNCHANGED <<storybookProcess, servers, teardowns, stdout>>
       ELSE /\ \E pkillOk, killOk \in BOOLEAN :
                 LET r == stopStorybook(storybookProcess, servers, pkillOk, killOk)
                 IN /\ storybookProcess' = r.proc
                    /\ servers' = r.servers
                    /\ teardowns' = Append(teardowns, Teardown("runStorybookTests", r))
                    /\ stdout' = Log(stdout, silent \/ ~r.tracked)
            /\ runnerOutcome' = "returned"
            /\ events' = events \o <<"stop", "return">>
    /\ pc' = "join"
    /\ UNCHANGED <<variant, mode, env, checkVars, validateOutcome, exited, exitCode,
                   attempts, probes, boundProbes, startOutcome, calls, signalled, testOutput, storyContent>>

\* runStorybookTests' finally block, and the runner settling
RunnerFinally ==
    /\ pc = "runner_finally"
    /\ \E pkillOk, killOk \in BOOLEAN :
         LET r == stopStorybook(storybookProcess, servers, pkillOk, killOk)
         IN /\ storybookProcess' = r.proc
            /\ servers' = r.servers
            /\ teardowns' = Append(teardowns, Teardown("runStorybookTests", r))
            /\ stdout' = Log(stdout, silent \/ ~r.tracked)
    /\ runnerOutcome' = IF runnerOutcome = "failing" THEN "rejected" ELSE "returned"
    /\ events' = events \o <<"stop", IF runnerOutcome = "failing" THEN "reject" ELSE "return">>
    /\ pc' = "join"
    /\ UNCHANGED <<variant, mode, env, checkVars, validateOutcome, exited, exitCode,
                   attempts, probes, boundProbes, startOutcome, calls, signalled, testOutput, storyContent>>

\* Join with validate's catch block left out: the runner's error goes on
\* its way out of validate.
Join_NoCatch ==
    /\ pc = "join"
    /\ IF runnerOutcome = "rejected"
       THEN /\ validateOutcome' = "failing"
            /\ UNCHANGED <<summary, stdout>>
       ELSE /\ summary' = generateSummary(checks)
            /\ stdout' = Log(stdout, silent)
            /\ UNCHANGED validateOutcome
    /\ pc' = "validate_finally"
    /\ UNCHANGED <<variant, mode, env, checks, assigned, tempTsConfig, resultsError,
                   runnerOutcome, events, exited, exitCode, procVars, calls, signalled, testOutput, storyContent>>

\* validate after `await Promise.all([...])`: the summary and the printed
\* results, or the catch block when a runner rejected
Join ==
    /\ pc = "join"
    /\ IF runnerOutcome = "rejected"
       THEN /\ resultsError' = TRUE
            /\ UNCHANGED <<summary, stdout>>
       ELSE /\ summary' = generateSummary(checks)
            /\ stdout' = Log(stdout, silent)
            /\ UNCHANGED resultsError
    /\ pc' = "validate_finally"
    /\ UNCHANGED <<variant, mode, env, checks, assigned, tempTsConfig,
                   validateOutcome, runnerOutcome, events, exited, exitCode,
                   procVars, calls, signalled, testOutput, storyContent>>

\* validate's finally block, and validate settling: it resolves with
\* this.results unless an error is on its way out of the try statement
AfterValidate == IF mode = "validate" THEN "idle" ELSE "main_exit"

ValidateFinally ==
    /\ pc = "validate_finally"
    /\ \E pkillOk, killOk \in BOOLEAN :
         LET r == StopIfTracked(storybookProcess, servers, pkillOk, killOk)
         IN /\ storybookProcess' = r.proc
            /\ servers' = r.servers
            /\ teardowns' = Append(teardowns, Teardown("validate", r))
            /\ stdout' = Log(stdout, ~r.tracked)
    /\ validateOutcome' = IF validateOutcome = "failing" THEN "rejected" ELSE "resolved"
    /\ pc' = AfterValidate
    /\ UNCHANGED <<variant, mode, env, checkVars, runnerOutcome, events, exited,
                   exitCode, attempts, probes, boundProbes, startOutcome, calls, signalled, testOutput, storyContent>>

OverallStatus == IF summary.present THEN summary.overallStatus ELSE "undefined"

\* the exit code of validate_story.js's formatted mode, with no code for WARNING
exitCode_part_001_NoWarning ==
    IF validateOutcome = "rejected" THEN 1
    ELSE IF OverallStatus = "FAIL" THEN 1
    ELSE 0

\* part_001: main after validate settled; main's catch block exits with 1
exitCode_part_001 ==
    IF validateOutcome = "rejected" THEN 1
    ELSE IF OverallStatus = "FAIL" THEN 1
    ELSE IF OverallStatus = "WARNING" THEN 2
    ELSE 0

MainExit_part_001 ==
    /\ pc = "main_exit" /\ variant = "part_001"
    /\ stdout' = IF env.json /\ validateOutcome = "resolved"
                 THEN Append(stdout, "json") ELSE stdout
    /\ exited' = TRUE
    /\ exitCode' = exitCode_part_001
    /\ pc' = "exit"
    /\ UNCHANGED <<variant, mode, env, checkVars, validateOutcome, runnerOutcome,
                   events, procVars, calls, signalled, testOutput, storyContent>>

\* validate_story.js: main after validate settled.  In JSON mode main
\* returns, its finally block calls cleanup, and the process ends with code
\* 0; main's catch block exits with 1.
exitCode_validate_story ==
    IF validateOutcome = "rejected" THEN 1
    ELSE IF env.json THEN 0
    ELSE IF OverallStatus = "FAIL" THEN 1 ELSE 0

MainExit_validate_story ==
    /\ pc = "main_exit" /\ variant = "validate_story"
    /\ IF env.json /\ validateOutcome = "resolved"
       THEN \E pkillOk, killOk \in BOOLEAN :
              LET r == StopIfTracked(storybookProcess, servers, pkillOk, killOk)
              IN /\ storybookProcess' = r.proc
                 /\ servers' = r.servers
                 /\ teardowns' = Append(teardowns, Teardown("main", r))
                 /\ stdout' = Log(Append(stdout, "json"), ~r.tracked)
       ELSE UNCHANGED <<storybookProcess, servers, teardowns, stdout>>
    /\ exited' = TRUE
    /\ exitCode' = exitCode_validate_story
    /\ pc' = "exit"
    /\ UNCHANGED <<variant, mode, env, checkVars, validateOutcome, runnerOutcome,
                   events, attempts, probes, boundProbes, startOutcome, calls, signalled, testOutput, storyContent>>

\* SIGINT, SIGTERM or SIGQUIT arrives once main has registered its handlers
\* (process.on).  Arrival only queues the handler: the code that is running,
\* a blocking execSync included, goes on.
SignalArrives ==
    /\ mode = "main" /\ pc \notin {"main", "exit"}
    /\ signalled = NoSignal \/ (signalled = NoProcess /\ storybookProcess # NoProcess)
    /\ signalled' = storybookProcess
    /\ UNCHANGED <<variant, mode, env, pc, checkVars, flowVars, procVars, calls,
                   testOutput, storyContent>>

\* The signal handler (main's `cleanup` closure) runs when the event loop
\* gets a turn, which is during startStorybook's sleep; it awaits
\* validator.cleanup() and calls process.exit(0).
Signal ==
    /\ mode = "main" /\ pc = "start_sleep"
    /\ signalled # NoSignal
    /\ \E pkillOk, killOk \in BOOLEAN :
         LET r == StopIfTracked(storybookProcess, servers, pkillOk, killOk)
         IN /\ storybookProcess' = r.proc
            /\ servers' = r.servers
            /\ teardowns' = Append(teardowns, Teardown("cleanup", r))
            /\ stdout' = Log(stdout, ~r.tracked)
    /\ exited' = TRUE
    /\ exitCode' = 0
    /\ pc' = "exit"
    /\ UNCHANGED <<variant, mode, env, checkVars, validateOutcome, runnerOutcome,
                   events, attempts, probes, boundProbes, startOutcome, calls, signalled, testOutput, storyContent>>

(***************************************************************************)
(* A caller invoking start(), stop() and cleanup() on one validator, each  *)
(* call awaited before the next                                            *)
(***************************************************************************)
CallStart ==
    /\ mode = "calls" /\ pc = "idle" /\ calls < MaxCalls
    /\ calls' = calls + 1
    /\ \E hasPid \in BOOLEAN : StartCall(silent, hasPid)
    /\ UNCHANGED <<variant, mode, env, checkVars, validateOutcome, runnerOutcome,
                   events, exited, exitCode, teardowns, signalled, testOutput, storyContent>>

CallStop ==
    /\ mode = "calls" /\ pc = "idle" /\ calls < MaxCalls
    /\ calls' = calls + 1
    /\ \E pkillOk, killOk \in BOOLEAN :
         LET r == stopStorybook(storybookProcess, servers, pkillOk, killOk)
         IN /\ storybookProcess' = r.proc
            /\ servers' = r.servers
            /\ teardowns' = Append(teardowns, Teardown("stop", r))
            /\ stdout' = Log(stdout, silent \/ ~r.tracked)
    /\ UNCHANGED <<variant, mode, env, pc, checkVars, validateOutcome, runnerOutcome,
                   events, exited, exitCode, attempts, probes, boundProbes, startOutcome,
                   signalled, testOutput, storyContent>>

CallCleanup ==
    /\ mode = "calls" /\ pc = "idle" /\ calls < MaxCalls
    /\ calls' = calls + 1
    /\ \E pkillOk, killOk \in BOOLEAN :
         LET r == StopIfTracked(storybookProcess, servers, pkillOk, killOk)
         IN /\ storybookProcess' = r.proc
            /\ servers' = r.servers
            /\ teardowns' = Append(teardowns, Teardown("cleanup", r))
            /\ stdout' = Log(stdout, ~r.tracked)
    /\ UNCHANGED <<variant, mode, env, pc, checkVars, validateOutcome, runnerOutcome,
                   events, exited, exitCode, attempts, probes, boundProbes, startOutcome,
                   signalled, testOutput, storyContent>>

(***************************************************************************)
(* Specifications                                                          *)
(***************************************************************************)
Envs == [fileArg : BOOLEAN, fileExists : BOOLEAN, hasRoot : BOOLEAN, json : BOOLEAN,
         eslintConfig : BOOLEAN, tsConfig : BOOLEAN, testRunner : BOOLEAN]

\* The state `new StoryValidator(...)` leaves (constructor) and main's locals
InitCommon ==
    /\ variant \in Variants
    /\ env \in Envs
    /\ checks = <<>>
    /\ assigned = [n \in CheckNames |-> 0]
    /\ summary = NoSummary
    /\ resultsError = FALSE
    /\ validateOutcome = "pending"
    /\ runnerOutcome = "pending"
    /\ storybookProcess = NoProcess
    /\ servers = <<>>
    /\ attempts = 0
    /\ probes = 0
    /\ boundProbes = 0
    /\ startOutcome = "none"
    /\ events = <<>>
    /\ teardowns = <<>>
    /\ tempTsConfig \in {"absent", "preexisting"}
    /\ stdout = <<>>
    /\ exited = FALSE
    /\ exitCode = 0
    /\ calls = 0
    /\ signalled = NoSignal
    /\ testOutput = <<>>
    /\ storyContent = NotRead

Init == InitCommon /\ mode = "main" /\ pc = "main"

Next ==
    \/ MainStart
    \/ runLinting
    \/ runTypeScriptCheck
    \/ checkCSFCompliance
    \/ runStorybookTests
    \/ StartLoop
    \/ StartWake
    \/ Tool_part_001
    \/ Tool_validate_story
    \/ RunnerCatch
    \/ RunnerFinally
    \/ Join
    \/ ValidateFinally
    \/ MainExit_part_001
    \/ MainExit_validate_story
    \/ SignalArrives
    \/ Signal

\* One run of main()
Spec == Init /\ [][Next]_vars

InitCalls ==
    /\ InitCommon
    /\ mode = "calls" /\ pc = "idle"
    /\ env.fileArg /\ env.fileExists /\ env.hasRoot
    /\ env.eslintConfig /\ env.tsConfig /\ env.testRunner
    /\ tempTsConfig = "absent"

NextCalls ==
    \/ CallStart
    \/ CallStop
    \/ CallCleanup
    \/ StartLoop
    \/ StartWake

\* Any sequence of start(), stop() and cleanup() calls on one validator
SpecCalls == InitCalls /\ [][NextCalls]_vars

\* The same, with the event loop running: code that can run does run, and a
\* sleep's timer fires.
FairCalls == SpecCalls /\ WF_vars(StartLoop) /\ WF_vars(StartWake)

(***************************************************************************)
(* A module that requires StoryValidator, calls validate() and, while that *)
(* call is in flight, cleanup()                                            *)
(***************************************************************************)
\* validate's first lines, up to the first runner
ValidateCall ==
    /\ mode = "validate" /\ pc = "validate"
    /\ stdout' = Log(stdout, silent)
    /\ pc' = "runLinting"
    /\ UNCHANGED <<variant, mode, env, checkVars, validateOutcome, runnerOutcome,
                   events, exited, exitCode, procVars, calls, signalled, testOutput,
                   storyContent>>

\* cleanup() called by the caller.  Its code runs when the event loop gets a
\* turn, which during validate() is while startStorybook sleeps between two
\* probes.
CleanupDuringValidate ==
    /\ mode = "validate" /\ pc = "start_sleep" /\ calls < MaxCleanups
    /\ calls' = calls + 1
    /\ \E pkillOk, killOk \in BOOLEAN :
         LET r == StopIfTracked(storybookProcess, servers, pkillOk, killOk)
         IN /\ storybookProcess' = r.proc
            /\ servers' = r.servers
            /\ teardowns' = Append(teardowns, Teardown("cleanup", r))
            /\ stdout' = Log(stdout, ~r.tracked)
    /\ UNCHANGED <<variant, mode, env, pc, checkVars, validateOutcome, runnerOutcome,
                   events, exited, exitCode, attempts, probes, boundProbes, startOutcome,
                   signalled, testOutput, storyContent>>

InitValidate ==
    /\ InitCommon
    /\ mode = "validate" /\ pc = "validate"
    /\ env.fileArg /\ env.fileExists /\ env.hasRoot
    /\ env.eslintConfig /\ env.tsConfig
    /\ tempTsConfig = "absent"

NextValidate ==
    \/ ValidateCall
    \/ runLinting
    \/ runTypeScriptCheck
    \/ checkCSFCompliance
    \/ runStorybookTests
    \/ StartLoop
    \/ StartWake
    \/ CleanupDuringValidate
    \/ Tool_part_001
    \/ Tool_validate_story
    \/ RunnerCatch
    \/ RunnerFinally
    \/ Join
    \/ ValidateFinally

\* One call of validate() with cleanup() calls of the caller in between
SpecValidate == InitValidate /\ [][NextValidate]_vars

\* Any checks mapping a caller of generateSummary can hold: zero to five
\* entries, each with one of the four statuses
CheckMappings ==
    UNION { [names -> {Result(st, "null") : st \in Statuses}] : names \in SUBSET CheckNames }

\* generateSummary() called on a validator holding such a mapping
GenerateSummary ==
    /\ mode = "summary" /\ pc = "generateSummary"
    /\ summary' = generateSummary(checks)
    /\ pc' = "idle"
    /\ UNCHANGED <<variant, mode, env, checks, assigned, resultsError, tempTsConfig,
                   flowVars, procVars, calls, signalled, testOutput, storyContent>>

InitSummary ==
    /\ mode = "summary" /\ pc = "generateSummary"
    /\ variant \in Variants
    /\ env = [fileArg |-> TRUE, fileExists |-> TRUE, hasRoot |-> TRUE, json |-> FALSE,
              eslintConfig |-> TRUE, tsConfig |-> TRUE, testRunner |-> TRUE]
    /\ checks \in CheckMappings
    /\ assigned = [n \in CheckNames |-> 0]
    /\ summary = NoSummary
    /\ resultsError = FALSE
    /\ validateOutcome = "pending"
    /\ runnerOutcome = "pending"
    /\ storybookProcess = NoProcess
    /\ servers = <<>>
    /\ attempts = 0
    /\ probes = 0
    /\ boundProbes = 0
    /\ startOutcome = "none"
    /\ events = <<>>
    /\ teardowns = <<>>
    /\ tempTsConfig = "absent"
    /\ stdout = <<>>
    /\ exited = FALSE
    /\ exitCode = 0
    /\ calls = 0
    /\ signalled = NoSignal
    /\ testOutput = <<>>
    /\ storyContent = NotRead

NextSummary == GenerateSummary

\* generateSummary as a function of the checks mapping
SpecSummary == InitSummary /\ [][NextSummary]_vars

\* Lines of tool output: the header line of the story's file (failed or
\* passed), of another file, the identifier with the marker after it, the
\* two sub-test headers, a message line, and stack lines naming the
\* identifier or the story's name
LineKinds ==
    { <<"FAIL", "ID">>, <<"PASS", "ID">>, <<"FAIL", "X">>, <<"ID", "FAIL">>,
      <<"SMOKE">>, <<"PLAY">>, <<"SMOKE_OTHER">>, <<"PLAY_OTHER">>, <<"MSG", "X">>,
      <<"at", "ID">>, <<"at", "NAME">> }

MaxLines == 5

RECURSIVE JoinLines(_)
JoinLines(ls) ==
    IF Len(ls) = 0 THEN <<>>
    ELSE IF Len(ls) = 1 THEN ls[1]
    ELSE ls[1] \o <<"NL">> \o JoinLines(Tail(ls))

\* parseTestOutput(testOutput, storyName) called on such a text, and its
\* two results assigned as runStorybookTests assigns them
ParseTestOutput ==
    /\ mode = "parse" /\ pc = "parseTestOutput"
    /\ checks' = AssignTests(checks, parseTestOutput(testOutput))
    /\ assigned' = CountTests(assigned)
    /\ pc' = "idle"
    /\ UNCHANGED <<variant, mode, env, summary, resultsError, tempTsConfig,
                   flowVars, procVars, calls, signalled, testOutput, storyContent>>

InitParse ==
    /\ mode = "parse" /\ pc = "parseTestOutput"
    /\ variant = "part_001"
    /\ env = [fileArg |-> TRUE, fileExists |-> TRUE, hasRoot |-> TRUE, json |-> FALSE,
              eslintConfig |-> TRUE, tsConfig |-> TRUE, testRunner |-> TRUE]
    /\ \E n \in 0..MaxLines : \E ls \in [1..n -> LineKinds] : testOutput = JoinLines(ls)
    /\ checks = <<>>
    /\ assigned = [n \in CheckNames |-> 0]
    /\ summary = NoSummary
    /\ resultsError = FALSE
    /\ validateOutcome = "pending"
    /\ runnerOutcome = "pending"
    /\ storybookProcess = NoProcess
    /\ servers = <<>>
    /\ attempts = 0
    /\ probes = 0
    /\ boundProbes = 0
    /\ startOutcome = "none"
    /\ events = <<>>
    /\ teardowns = <<>>
    /\ tempTsConfig = "absent"
    /\ stdout = <<>>
    /\ exited = FALSE
    /\ exitCode = 0
    /\ calls = 0
    /\ signalled = NoSignal
    /\ storyContent = NotRead

NextParse == ParseTestOutput

\* parseTestOutput as a function of the tool's output, over every text of up
\* to MaxLines lines
SpecParse == InitParse /\ [][NextParse]_vars

InitCSF ==
    /\ mode = "csf" /\ pc = "checkCSFCompliance"
    /\ variant \in Variants
    /\ env = [fileArg |-> TRUE, fileExists |-> TRUE, hasRoot |-> TRUE, json |-> FALSE,
              eslintConfig |-> TRUE, tsConfig |-> TRUE, testRunner |-> TRUE]
    /\ \E readable \in BOOLEAN, c \in Contents : storyContent = StoryFile(readable, c)
    /\ testOutput = <<>>
    /\ checks = <<>>
    /\ assigned = [n \in CheckNames |-> 0]
    /\ summary = NoSummary
    /\ resultsError = FALSE
    /\ validateOutcome = "pending"
    /\ runnerOutcome = "pending"
    /\ storybookProcess = NoProcess
    /\ servers = <<>>
    /\ attempts = 0
    /\ probes = 0
    /\ boundProbes = 0
    /\ startOutcome = "none"
    /\ events = <<>>
    /\ teardowns = <<>>
    /\ tempTsConfig = "absent"
    /\ stdout = <<>>
    /\ exited = FALSE
    /\ exitCode = 0
    /\ calls = 0
    /\ signalled = NoSignal

NextCSF == CheckCSFCompliance

\* checkCSFCompliance as a function of the story file
SpecCSF == InitCSF /\ [][NextCSF]_vars

(***************************************************************************)
(* Claims                                                                  *)
(***************************************************************************)
Recorded(n) == n \in DOMAIN checks
StatusOf(n) == IF Recorded(n) THEN checks[n].status ELSE "unrecorded"
ValidateSettled == validateOutcome \in {"resolved", "rejected"}
RunnerSettled == runnerOutcome \in {"returned", "rejected"}

\* C1: validate() never throws or rejects.  Whatever the runners did (results
\* of any status, the start-up timeout, a tool that could not be run), once
\* validate has settled it has resolved with the report, and when a runner
\* rejected the report carries the error.
C1_ValidateNeverRejects ==
    /\ validateOutcome # "rejected"
    /\ pc \in {"main_exit"} => validateOutcome = "resolved"
    /\ (ValidateSettled /\ runnerOutcome = "rejected") => resultsError

\* C1 witness: validate resolved after the live-test runner rejected on the
\* start-up timeout.
C1_Witness ==
    /\ validateOutcome = "resolved"
    /\ runnerOutcome = "rejected"
    /\ startOutcome = "threw"

\* C2 (the claim as stated): when start() has thrown the start-up timeout
\* inside runStorybookTests, the runner does not reject and records FAIL for
\* both renderTest and interactionTest.
C2_TimeoutRecordsBothFail ==
    (mode = "main" /\ startOutcome = "threw" /\ RunnerSettled) =>
        /\ runnerOutcome = "returned"
        /\ StatusOf("renderTest") = "FAIL"
        /\ StatusOf("interactionTest") = "FAIL"

\* C3 (the claim as stated): every report validate() returns holds the
\* computed summary.
C3_ReportHasSummary ==
    validateOutcome = "resolved" => summary.present

SyncEntries == {"linting", "typeScript", "csfCompliance"}
TestEntries == {"renderTest", "interactionTest"}

\* The entries the code running at position p belongs to
Owner(p) ==
    CASE p = "runLinting" -> {"linting"}
      [] p = "runTypeScriptCheck" -> {"typeScript"}
      [] p = "checkCSFCompliance" -> {"csfCompliance"}
      [] p \in {"runStorybookTests", "tool", "runner_catch"} -> TestEntries
      [] OTHER -> {}

\* C4: runner isolation.  When the four runners have settled, each of the
\* three synchronous runners has recorded its entry whatever the others did,
\* the live-test runner has recorded its two entries unless it is the one
\* that raised the error, and no step taken by one runner (or by anything
\* else) removes or changes an entry of another runner.
C4_RunnerIsolation ==
    /\ [](pc \in {"join", "validate_finally", "main_exit"} =>
            /\ \A n \in SyncEntries : Recorded(n)
            /\ runnerOutcome = "returned" => \A n \in TestEntries : Recorded(n))
    /\ [][\A n \in DOMAIN checks :
            /\ n \in DOMAIN checks'
            /\ checks'[n] # checks[n] => n \in Owner(pc)]_vars

\* C4 witness: the live-test runner rejected, linting failed, the file could
\* not be read, and the type check's entry is there all the same.
C4_Witness ==
    /\ pc = "join"
    /\ runnerOutcome = "rejected"
    /\ StatusOf("linting") = "FAIL"
    /\ StatusOf("csfCompliance") = "ERROR"
    /\ StatusOf("typeScript") = "PASS"

IsPrefix(s, t) == Len(s) <= Len(t) /\ \A i \in DOMAIN s : s[i] = t[i]

RunnerOrders ==
    { <<"start", "tool", "stop", "return">>,
      <<"start", "tool", "stop", "reject">>,
      <<"start", "stop", "return">>,
      <<"start", "stop", "reject">> }

\* C5: in the live-test runner with the tooling declared, start() is called
\* first, the tool is invoked only after start() returned, stop() is called
\* after the tool invocation (if any) is over and before the runner returns
\* or rejects, also when start() or the tool invocation raised an error; the
\* stop() is the runner's own and leaves no child tracked.
C5_StartToolStopOrder ==
    /\ \E o \in RunnerOrders : IsPrefix(events, o)
    /\ (Len(events) >= 2 /\ events[2] = "tool") => startOutcome = "returned"
    /\ (Len(events) >= 2 /\ events[2] = "stop") => startOutcome = "threw"
    /\ (env.testRunner /\ RunnerSettled) =>
          /\ events \in RunnerOrders
          /\ storybookProcess = NoProcess
          /\ \E i \in DOMAIN teardowns :
                teardowns[i].by = "runStorybookTests" /\ teardowns[i].tracked
    /\ (~env.testRunner) => events = <<>>

\* C5 witness: the runner rejected because start() threw, and stop() was
\* called before it did.
C5_Witness ==
    /\ events = <<"start", "stop", "reject">>
    /\ runnerOutcome = "rejected"

TrackedTeardowns == {i \in DOMAIN teardowns : teardowns[i].tracked}

\* C6: whenever validate() has returned, no preview-server handle is tracked
\* and every server spawned during the run has been through stop().
C6_NoHandleAfterValidate ==
    validateOutcome = "resolved" =>
        /\ storybookProcess = NoProcess
        /\ Cardinality(TrackedTeardowns) = Len(servers)

\* C6 witness: validate returned after a runner raised an error, with a
\* server spawned and its termination command failing.
C6_Witness ==
    /\ validateOutcome = "resolved"
    /\ runnerOutcome = "rejected"
    /\ Len(servers) = 1
    /\ \E i \in DOMAIN teardowns : teardowns[i].error = "caught"

\* C7: in a run whose readiness probe never found the port bound, the server
\* is torn down exactly once: the live-test runner's stop() finds the child
\* and issues the termination commands (one pkill, at most one kill), and
\* every later teardown hook finds no handle and issues nothing.
C7_TimeoutTornDownOnce ==
    (mode = "main" /\ startOutcome = "threw" /\ exited) =>
        /\ Len(servers) = 1
        /\ Len(teardowns) >= 2
        /\ teardowns[1].by = "runStorybookTests"
        /\ teardowns[1].tracked
        /\ \A i \in 2..Len(teardowns) : ~teardowns[i].tracked /\ teardowns[i].cmds = 0
        /\ servers[1].pkill = (IF servers[1].pid THEN 1 ELSE 0)
        /\ servers[1].kill <= 1
        /\ servers[1].pkill + servers[1].kill = teardowns[1].cmds

\* C7 witness: such a run has ended, the child had a pid, and validate's and
\* main's hooks both ran after the runner's stop().
C7_Witness ==
    /\ mode = "main" /\ startOutcome = "threw" /\ exited
    /\ servers[1].pid
    /\ Len(teardowns) = 3

StopStep == Len(teardowns') = Len(teardowns) + 1
LastTeardown == teardowns[Len(teardowns)]

\* C8: stop() and cleanup() are idempotent.  In any sequence of start(),
\* stop() and cleanup() calls, a stop() or cleanup() made with no server
\* tracked changes nothing and issues no command, no stop() or cleanup()
\* throws, and each spawned server gets each termination command at most once.
C8_StopIdempotent ==
    /\ [][(StopStep /\ storybookProcess = NoProcess) =>
            /\ UNCHANGED <<storybookProcess, servers, stdout>>
            /\ LastTeardown'.cmds = 0]_vars
    /\ [](\A i \in DOMAIN teardowns : teardowns[i].error # "thrown")
    /\ [](\A p \in DOMAIN servers : servers[p].pkill <= 1 /\ servers[p].kill <= 1)

\* C8 witness: start(), then a stop() or cleanup() that killed the child,
\* then two more that found nothing.
C8_Witness ==
    /\ Len(teardowns) = 3
    /\ Len(servers) = 1 /\ servers[1].pkill = 1
    /\ teardowns[1].tracked /\ ~teardowns[2].tracked /\ ~teardowns[3].tracked
    /\ teardowns[3].by = "cleanup"

\* C9: a stop() made while a server is tracked ends with no server tracked
\* and propagates no error, also when a termination command fails.
C9_StopClearsHandle ==
    [][(StopStep /\ storybookProcess # NoProcess) =>
          /\ storybookProcess' = NoProcess
          /\ LastTeardown'.tracked
          /\ LastTeardown'.error # "thrown"]_vars

\* C9 witness: a stop() whose termination command failed, and no server is
\* tracked after it.
C9_Witness ==
    /\ Len(teardowns) > 0
    /\ LastTeardown.tracked /\ LastTeardown.error = "caught"
    /\ storybookProcess = NoProcess

StartDone == startOutcome \in {"returned", "threw"}

\* C10: start() with no server tracked terminates.  It makes at most
\* maxAttempts probes with one wait between two probes, returns as soon as a
\* probe finds the port bound (so it goes on polling only while none has),
\* and throws exactly when maxAttempts probes all found the port unbound.
C10_StartTerminates ==
    /\ [](probes <= maxAttempts /\ attempts <= maxAttempts)
    /\ [](startOutcome = "polling" =>
            boundProbes = 0 /\ (probes = attempts \/ probes = attempts + 1))
    /\ [](startOutcome = "returned" =>
            boundProbes = 1 /\ probes = attempts + 1 /\ attempts < maxAttempts)
    /\ [](startOutcome = "threw" =>
            boundProbes = 0 /\ probes = maxAttempts /\ attempts = maxAttempts)
    /\ (startOutcome = "polling" ~> StartDone)

\* C10 witness: start() returned at its last probe, the 30th.
C10_Witness ==
    /\ startOutcome = "returned"
    /\ probes = maxAttempts

HandlerStep == pc = "start_sleep" /\ exited'

\* C11: a signal that arrives while a preview server is tracked never lets
\* the process exit with that server still tracked: by the time the process
\* has exited, stop() has run for the server (pkill issued for a child with a
\* pid, the handle cleared).  When the signal handler gets to run while the
\* server is tracked, it is its cleanup() that runs stop(), in the same
\* uninterrupted piece of code that ends in process.exit(0); when the code
\* never gives the handler a turn, the runner's finally block has run stop().
C11_SignalStopsServer ==
    /\ []((signalled > NoProcess /\ exited) =>
            /\ storybookProcess = NoProcess
            /\ \E i \in DOMAIN teardowns : teardowns[i].tracked
            /\ servers[signalled].pkill = (IF servers[signalled].pid THEN 1 ELSE 0))
    /\ [][(HandlerStep /\ storybookProcess # NoProcess) =>
            /\ signalled # NoSignal
            /\ storybookProcess' = NoProcess
            /\ LastTeardown'.by = "cleanup" /\ LastTeardown'.tracked
            /\ LastTeardown'.cmds >= (IF servers[storybookProcess].pid THEN 1 ELSE 0)
            /\ exitCode' = 0]_vars

\* C11 witness: the signal arrived while the server was tracked, the handler
\* ran cleanup(), both termination commands were issued, and the process
\* exited.
C11_Witness ==
    /\ signalled > NoProcess
    /\ exited /\ exitCode = 0
    /\ LastTeardown.by = "cleanup" /\ LastTeardown.tracked /\ LastTeardown.cmds = 2
    /\ storybookProcess = NoProcess

Denominator == summary.totalChecks - summary.skippedChecks

\* s is x / d rounded to the nearest integer, halves up (Math.round)
IsRounded(s, x, d) == 2 * s * d - d <= 2 * x /\ 2 * x < 2 * s * d + d

\* C12 (the claim as stated): for every checks mapping, the score is
\* round(100 * passed / (total - skipped)) when total - skipped > 0 and is 0
\* when total - skipped = 0, a non-empty mapping of SKIPs included.
C12_ScoreFormula ==
    summary.present =>
        /\ ~summary.score.nan
        /\ IF Denominator > 0
           THEN IsRounded(summary.score.value, 100 * Tally(checks, "PASS"), Denominator)
           ELSE summary.score.value = 0

\* C13: every summary validate() computes has a score that is an integer
\* from 0 to 100, its denominator total - skipped being at least 1.
C13_ScoreInRange ==
    (mode = "main" /\ summary.present) =>
        /\ Denominator >= 1
        /\ ~summary.score.nan
        /\ summary.score.value \in 0..100

\* C13 witness: a summary computed with every check but csfCompliance
\* skipped, the denominator being 1.
C13_Witness ==
    /\ mode = "main" /\ summary.present
    /\ summary.skippedChecks = 4
    /\ summary.score = Number(100)

\* x < y for a score x that may be NaN: every comparison with NaN is false
ScoreAtLeast(x, y) == ~x.nan /\ x.value >= y
ScoreBelow(x, y) == ~x.nan /\ x.value < y

\* C14 (the claim as stated): for every combination of statuses of the five
\* checks, overallStatus is PASS exactly when the reported score is at least
\* 80, WARNING exactly when it is from 60 to 79, FAIL exactly when it is
\* below 60.
C14_StatusFromScore ==
    (summary.present /\ summary.totalChecks = 5) =>
        /\ summary.overallStatus = "PASS" <=> ScoreAtLeast(summary.score, 80)
        /\ summary.overallStatus = "WARNING" <=>
               (ScoreAtLeast(summary.score, 60) /\ ScoreBelow(summary.score, 80))
        /\ summary.overallStatus = "FAIL" <=> ScoreBelow(summary.score, 60)

\* C15: in every summary, totalChecks is the number of entries of checks and
\* passed + failed + skipped is at most totalChecks, with equality exactly
\* when no check has status ERROR.
C15_CountsAddUp ==
    summary.present =>
        LET counted == summary.passedChecks + summary.failedChecks + summary.skippedChecks
        IN /\ summary.totalChecks = Cardinality(DOMAIN checks)
           /\ summary.passedChecks = Cardinality({n \in DOMAIN checks : checks[n].status = "PASS"})
           /\ summary.failedChecks = Cardinality({n \in DOMAIN checks : checks[n].status = "FAIL"})
           /\ summary.skippedChecks = Cardinality({n \in DOMAIN checks : checks[n].status = "SKIP"})
           /\ counted <= summary.totalChecks
           /\ counted = summary.totalChecks <=>
                  (\A n \in DOMAIN checks : checks[n].status # "ERROR")

\* C15 witness: a summary of five checks, two of them ERROR, one of each
\* other status.
C15_Witness ==
    /\ summary.present
    /\ summary.totalChecks = 5
    /\ summary.passedChecks = 1 /\ summary.failedChecks = 1 /\ summary.skippedChecks = 1

ExitCodeFor(status) ==
    CASE status = "FAIL" -> 1
      [] status = "WARNING" -> 2
      [] status = "PASS" -> 0

\* C16: main of part_001, once a validation has completed with a summary,
\* exits with 1 for overallStatus FAIL, 2 for WARNING and 0 for PASS, in JSON
\* mode as in formatted mode.
C16_ExitCodeMapping ==
    (variant = "part_001" /\ exited /\ summary.present) =>
        exitCode = ExitCodeFor(summary.overallStatus)

\* C16 witness: a JSON-mode run of part_001 that ended with overallStatus
\* WARNING and exit code 2.
C16_Witness ==
    /\ variant = "part_001" /\ exited /\ summary.present
    /\ env.json
    /\ summary.overallStatus = "WARNING"
    /\ exitCode = 2

SomeCheckFailed == \E n \in DOMAIN checks : checks[n].status = "FAIL"

\* C17 (the claim as stated): validate_story.js, once a validation has
\* completed, exits with 1 when one or more checks have status FAIL and with
\* 0 otherwise (all checks passed, or warnings only).
C17_ReadmeExitCodes ==
    (variant = "validate_story" /\ exited /\ validateOutcome = "resolved") =>
        exitCode = (IF SomeCheckFailed THEN 1 ELSE 0)

Parsed == mode = "parse" /\ pc = "idle"
Occurs(w) == \E i \in DOMAIN testOutput : testOutput[i] = w
SameLine(i, j) == \A k \in i..j : testOutput[k] # "NL"

\* a FAIL marker on a line, followed on that line by the identifier
FailMarkerWithIdentifier ==
    \E i \in DOMAIN testOutput :
        /\ testOutput[i] \in {"FAIL", "failed"}
        /\ \E j \in (i + 1)..Len(testOutput) : testOutput[j] = "ID" /\ SameLine(i, j)

\* C18: when the identifier <name>.stories.tsx occurs nowhere in the text,
\* renderTest and interactionTest are both SKIP, whatever else the text
\* holds (failure markers, sub-test headers with failure blocks, the
\* story's bare name, other files' results).
C18_NoIdentifierBothSkip ==
    (Parsed /\ ~Occurs("ID")) =>
        /\ checks.renderTest = Result("SKIP", "Story not found in test output")
        /\ checks.interactionTest = Result("SKIP", "Story not found in test output")

\* C18 witness: a text without the identifier that reports another file's
\* failure and holds a smoke-test failure block naming the story.
C18_Witness ==
    /\ Parsed
    /\ testOutput = <<"FAIL", "X", "NL", "SMOKE", "NL", "MSG", "X", "NL", "at", "NAME">>
    /\ checks.renderTest.status = "SKIP" /\ checks.interactionTest.status = "SKIP"

\* C19: when the identifier occurs and no FAIL marker stands before it on
\* its line, renderTest and interactionTest are both PASS with no error
\* text, whatever failures of other files and whatever failure blocks the
\* text holds.
C19_NoFailMarkerBothPass ==
    (Parsed /\ Occurs("ID") /\ ~FailMarkerWithIdentifier) =>
        /\ checks.renderTest = Result("PASS", "null")
        /\ checks.interactionTest = Result("PASS", "null")

\* C19 witness: another file failed on the line before the story's PASS
\* line, and a failure block follows.
C19_Witness ==
    /\ Parsed
    /\ testOutput = <<"FAIL", "X", "NL", "PASS", "ID", "NL", "PLAY", "NL", "MSG", "X",
                      "NL", "at", "ID">>
    /\ checks.renderTest.status = "PASS" /\ checks.interactionTest.status = "PASS"

\* A failure block of one sub-test: its header, then a message marker, then
\* a stack line naming the story, with no other sub-test header in between
FailureBlockOf(marker) ==
    \E i \in DOMAIN testOutput :
        /\ testOutput[i] = marker
        /\ \E j \in (i + 1)..Len(testOutput) :
             /\ testOutput[j] = "MSG"
             /\ \E k \in (j + 1)..Len(testOutput) :
                  /\ testOutput[k] = "at"
                  /\ \E l \in (k + 1)..Len(testOutput) :
                       /\ testOutput[l] \in {"ID", "NAME"}
                       /\ SameLine(k, l)
                       /\ \A m \in (i + 1)..l :
                            testOutput[m] \notin {"SMOKE", "PLAY", "SMOKE_OTHER", "PLAY_OTHER"}

\* C20 (the claim as stated): a text that holds a render-failure block and
\* no interaction-failure block yields renderTest FAIL and interactionTest
\* PASS, and a sub-result is FAIL only when the text holds a failure block
\* of its own category.
C20_ClassifierIndependence ==
    Parsed =>
        /\ (FailureBlockOf("SMOKE") /\ ~FailureBlockOf("PLAY")) =>
              /\ checks.renderTest.status = "FAIL"
              /\ checks.interactionTest.status = "PASS"
        /\ checks.renderTest.status = "FAIL" => FailureBlockOf("SMOKE")
        /\ checks.interactionTest.status = "FAIL" => FailureBlockOf("PLAY")

ModernMarkers == {"StoryObj<", "Meta<", "as Meta<", "satisfies"}
DeprecatedMarkers == {"storiesOf(", "addDecorator(", "addParameters("}
HasModern == storyContent.markers \cap ModernMarkers # {}
HasDeprecated == storyContent.markers \cap DeprecatedMarkers # {}

\* C21 (the claim as stated): checkCSFCompliance gives PASS whenever the
\* file holds a modern-format marker, FAIL when it holds deprecated-format
\* markers and no modern one, FAIL when it holds neither, and ERROR when the
\* file cannot be read.
C21_FormatClassification ==
    (mode = "csf" /\ storyContent.read) =>
        checks.csfCompliance.status =
            (IF ~storyContent.readable THEN "ERROR"
             ELSE IF HasModern THEN "PASS"
             ELSE "FAIL")

SkipEntries == {n \in DOMAIN checks : checks[n].status = "SKIP"}

\* C22 (the claim as stated): for a target with no ESLint configuration, no
\* tsconfig.json, a modern-format marker in the file and no test-runner
\* dependency, validate() returns a report whose checks are csfCompliance
\* with PASS plus three SKIP entries, with score 100 and overallStatus PASS.
C22_ScenarioModernFileOnly ==
    (/\ mode = "main" /\ validateOutcome = "resolved"
     /\ ~env.eslintConfig /\ ~env.tsConfig /\ ~env.testRunner
     /\ storyContent.readable /\ HasModern) =>
        /\ checks.csfCompliance.status = "PASS"
        /\ Cardinality(SkipEntries) = 3
        /\ DOMAIN checks = SkipEntries \cup {"csfCompliance"}
        /\ summary.present
        /\ summary.score = Number(100)
        /\ summary.overallStatus = "PASS"

C24_NoRunnerNoServer ==
    (mode = "main" /\ ~env.testRunner) =>
        /\ servers = <<>>
        /\ storybookProcess = NoProcess
        /\ probes = 0
        /\ startOutcome = "none"
        /\ events = <<>>
        /\ \A i \in DOMAIN teardowns : ~teardowns[i].tracked /\ teardowns[i].cmds = 0
        /\ runnerOutcome # "pending" =>
              /\ runnerOutcome = "returned"
              /\ checks.renderTest = Result("SKIP", "No Storybook test-runner found")
              /\ checks.interactionTest = Result("SKIP", "No Storybook test-runner found")

\* C24 witness: a run without test-runner tooling has gone through the
\* live-test runner and produced its report.
C24_Witness ==
    /\ mode = "main" /\ ~env.testRunner
    /\ validateOutcome = "resolved"
    /\ StatusOf("renderTest") = "SKIP"
    /\ StatusOf("interactionTest") = "SKIP"

UsageError == ~env.fileArg \/ ~env.fileExists \/ ~env.hasRoot

\* C25: when no target argument is given, the target file does not exist, or
\* no package.json is found above it, main exits with code 1 and nothing
\* else happens: no check is recorded, no report or line is written to
\* standard output, validate is not entered, no server is spawned.
C25_UsageErrorExitsOne ==
    (mode = "main" /\ UsageError) =>
        /\ pc \in {"main", "exit"}
        /\ pc = "exit" => (exited /\ exitCode = 1)
        /\ exited => exitCode = 1
        /\ checks = <<>>
        /\ \A n \in CheckNames : assigned[n] = 0
        /\ ~summary.present
        /\ validateOutcome = "pending"
        /\ runnerOutcome = "pending"
        /\ stdout = <<>>
        /\ servers = <<>> /\ probes = 0 /\ events = <<>> /\ teardowns = <<>>
        /\ tempTsConfig \in {"absent", "preexisting"}
        /\ ~storyContent.read

\* C25 witness: main has exited on a usage error.
C25_Witness ==
    /\ mode = "main" /\ UsageError
    /\ exited /\ exitCode = 1

\* C26: in JSON mode nothing is written to standard output while the run is
\* under way, and a run whose validate() resolved has written exactly one
\* item when it exits, the serialized report: startStorybook, stopStorybook,
\* the runners and validate print no line.
C26_JsonModeOnlyReport ==
    (mode = "main" /\ env.json) =>
        /\ pc # "exit" => stdout = <<>>
        /\ (exited /\ validateOutcome = "resolved") => stdout = <<"json">>

\* C26 witness: a JSON-mode run that started and stopped a server has exited
\* with the report as its only output.
C26_Witness ==
    /\ mode = "main" /\ env.json
    /\ exited /\ validateOutcome = "resolved"
    /\ Len(servers) = 1 /\ servers[1].pkill > 0
    /\ stdout = <<"json">>

ErrorEntries == {n \in DOMAIN checks : checks[n].status = "ERROR"}

\* C27: a check of status ERROR is counted neither as passed nor as failed,
\* and it is left out of the score's denominator as a SKIP is: the summary
\* of the mapping with one ERROR entry replaced by SKIP has the same score
\* and the same overallStatus.
C27_ErrorScoredLikeSkip ==
    (mode = "summary" /\ summary.present) =>
        /\ summary.passedChecks + summary.failedChecks + summary.skippedChecks
              + Cardinality(ErrorEntries) = summary.totalChecks
        /\ \A n \in ErrorEntries :
              LET replaced == generateSummary([checks EXCEPT ![n].status = "SKIP"])
              IN /\ replaced.score = summary.score
                 /\ replaced.overallStatus = summary.overallStatus

\* C28: when stopStorybook finds a tracked server with a known pid, it
\* issues `kill <pid>` for it whether or not `pkill -P <pid>` succeeded:
\* every server with a pid that is no longer tracked has been sent a kill.
C28_KillAlwaysIssued ==
    mode = "calls" =>
        \A p \in DOMAIN servers :
            (servers[p].pid /\ p # storybookProcess) =>
                servers[p].pkill >= 1 /\ servers[p].kill >= 1

NumberStopped == Cardinality({i \in DOMAIN teardowns : teardowns[i].tracked})

\* a call of startStorybook made while a server is tracked
StartWhileTracked ==
    /\ mode = "calls" /\ pc = "idle"
    /\ storybookProcess # NoProcess
    /\ calls' = calls + 1 /\ teardowns' = teardowns

\* C29: startStorybook does nothing while a server is tracked: such a call
\* spawns no server, probes no port and keeps the tracked server; hence in
\* any sequence of calls every spawned server but the tracked one has been
\* through stopStorybook, and the tracked one is the one spawned last.
C29_StartIsNoOpWhileTracked ==
    /\ [](mode = "calls" =>
            /\ NumberStopped + (IF storybookProcess # NoProcess THEN 1 ELSE 0)
                 = Len(servers)
            /\ storybookProcess \in {NoProcess, Len(servers)})
    /\ [][StartWhileTracked =>
            /\ UNCHANGED <<servers, storybookProcess, probes, boundProbes, attempts>>
            /\ startOutcome' = "noop"
            /\ pc' = "idle"]_vars

\* C29 witness: startStorybook was called while the first server was
\* tracked, and that server is still the only one.
C29_Witness ==
    /\ mode = "calls"
    /\ startOutcome = "noop"
    /\ Len(servers) = 1 /\ storybookProcess = 1

\* The header of one of this story's smoke tests, then a message marker,
\* then a stack line naming the story
RenderFailureBlock ==
    \E i \in DOMAIN testOutput :
        /\ testOutput[i] = "SMOKE"
        /\ \E j \in (i + 1)..Len(testOutput) :
             /\ testOutput[j] = "MSG"
             /\ \E k \in (j + 1)..Len(testOutput) :
                  /\ testOutput[k] = "at"
                  /\ \E l \in (k + 1)..Len(testOutput) :
                       testOutput[l] \in {"ID", "NAME"} /\ SameLine(k, l)

\* C30 (the claim as stated): for a text in which a FAIL marker stands with
\* the identifier, renderTest is SKIP exactly when the text holds no
\* smoke-test header of this story, FAIL exactly when it holds a render
\* failure block, with an error text, and PASS in the remaining case.
C30_RenderSubResult ==
    (Parsed /\ Occurs("ID") /\ FailMarkerWithIdentifier) =>
        /\ checks.renderTest.status =
              (IF ~Occurs("SMOKE") THEN "SKIP"
               ELSE IF RenderFailureBlock THEN "FAIL"
               ELSE "PASS")
        /\ checks.renderTest.status = "FAIL" =>
              checks.renderTest.error \notin {"null", ""}

\* a word with smoke-test and play-test exchanged
Exchange(w) ==
    CASE w = "SMOKE" -> "PLAY"
      [] w = "PLAY" -> "SMOKE"
      [] w = "SMOKE_OTHER" -> "PLAY_OTHER"
      [] w = "PLAY_OTHER" -> "SMOKE_OTHER"
      [] OTHER -> w

Exchanged(text) == [i \in DOMAIN text |-> Exchange(text[i])]

C32_CheckResultInvariant ==
    \A n \in DOMAIN checks :
        /\ n \in CheckNames
        /\ checks[n].status \in {"PASS", "FAIL", "SKIP", "ERROR"}
        /\ checks[n].status = "PASS" => checks[n].error = "null"

\* C32 witness: a report with entries of status PASS, FAIL and ERROR.
C32_Witness ==
    /\ mode = "main" /\ validateOutcome = "resolved"
    /\ DOMAIN checks = CheckNames
    /\ checks.linting.status = "PASS"
    /\ checks.typeScript.status = "FAIL"
    /\ checks.csfCompliance.status = "ERROR"
    /\ checks.renderTest.status = "PASS"

\* C33 (the claim as stated): when validate() has settled, each of the five
\* entries of checks has been assigned exactly once during the run.
C33_AssignedExactlyOnce ==
    (mode = "main" /\ validateOutcome \in {"resolved", "rejected"}) =>
        \A n \in CheckNames : assigned[n] = 1

\* the four runners of validate's Promise.all have settled
RunnersSettled ==
    /\ pc \in {"join", "validate_finally", "main_exit", "exit"}
    /\ {"linting", "typeScript", "csfCompliance"} \subseteq DOMAIN checks
    /\ runnerOutcome \in {"returned", "rejected"}

\* C34: in a run of validate the summary is absent as long as one of the
\* four runners has not settled; it is computed from checks once all have,
\* and once present it is never changed again, neither by stopStorybook nor
\* by cleanup nor by printing.
C34_SummaryOnlyAfterRunners ==
    /\ [](mode = "main" =>
            /\ ~RunnersSettled => ~summary.present
            /\ summary.present =>
                 /\ pc \in {"validate_finally", "main_exit", "exit"}
                 /\ runnerOutcome = "returned"
                 /\ summary = generateSummary(checks))
    /\ [][(mode = "main" /\ summary.present) => summary' = summary]_vars
    /\ [][(mode = "main" /\ summary' # summary) => pc = "join"]_vars

\* C34 witness: the run started and stopped a server, computed its summary
\* and went through validate's finally block and main's exit.
C34_Witness ==
    /\ mode = "main" /\ exited
    /\ summary.present
    /\ Len(servers) = 1
    /\ Len(teardowns) >= 2

\* C35 (the claim as stated): whenever startStorybook has returned without
\* an error, a readiness probe has found the port bound since the tracked
\* server was spawned.
C35_ReturnMeansPortBound ==
    (mode = "calls" /\ pc = "idle" /\ startOutcome \in {"returned", "noop"}) =>
        boundProbes >= 1

\* C36 (the claim as stated): a run of part_001's main that is not ended by
\* a signal exits with code 0 only if validate() computed a summary whose
\* overallStatus is PASS; a report with an error field and no summary does
\* not exit with code 0.
C36_ExitZeroOnlyOnPass ==
    (variant = "part_001" /\ mode = "main" /\ exited /\ validateOutcome # "pending"
       /\ exitCode = 0) =>
        /\ ~resultsError
        /\ summary.present
        /\ summary.overallStatus = "PASS"

\* C37 (the claim as stated): when runStorybookTests goes on to invoke
\* test-storybook, a preview-server handle is tracked, whatever cleanup()
\* calls took place while startStorybook was waiting.
C37_ToolOnlyWhileTracked ==
    (mode = "validate" /\ pc = "tool") => storybookProcess # NoProcess

\* C38 (the claim as stated): runTypeScriptCheck leaves the files that were
\* in the project root before it ran as they were: a temp-tsconfig.json that
\* existed before the runner is still there, unchanged, when it returns.
C38_PreexistingFilesKept ==
    [][(pc = "runTypeScriptCheck" /\ tempTsConfig = "preexisting")
          => tempTsConfig' = "preexisting"]_vars

====
